---- MODULE Spec2Model ----
(***************************************************************************)
(* Model of HVProgrammer.cpp: the AVR high-voltage serial programming      *)
(* (HVSP) fuse reprogrammer.                                               *)
(*                                                                         *)
(* Four specifications are given over one set of variables:               *)
(*   SpecShift  one call of shiftOut(), bit by bit: the SDO poll with its  *)
(*              millis() timeout, then the 11 bit steps and the return.    *)
(*   Spec       loop(): one session after the other, one step per          *)
(*              shiftOut() transaction, the response byte computed from    *)
(*              the 11 sampled SDO levels exactly as shiftOut() does.      *)
(*   FairSpec   Spec with the processor running for ever.                  *)
(*   SpecSim    Spec against a simulated target that keeps three fuse      *)
(*              banks and answers the fuse reads from them.                *)
(***************************************************************************)
EXTENDS Integers, Sequences, FiniteSets, TLC

(***************************************************************************)
(* Program constants (HVProgrammer.cpp lines 34-55), in decimal.           *)
(***************************************************************************)
READING_TIMEOUT_MILLIS == 300

\* 0x747C, 0x646C, 0x666E
HFUSE == 29820
LFUSE == 25708
EFUSE == 26222

\* 0x9007, 0x910B, 0x9108, 0x9207, 0x9206, 0x930C, 0x930B
ATTINY13 == 36871
ATTINY24 == 37131
ATTINY25 == 37128
ATTINY44 == 37383
ATTINY45 == 37382
ATTINY84 == 37644
ATTINY85 == 37643

\* Arduino levels and pin modes
LOW == 0
HIGH == 1

(***************************************************************************)
(* Integer widths of the AVR build: uint8_t, uint16_t, uint32_t.           *)
(***************************************************************************)
Pow2(n) == 2 ^ n

U8(x) == x % Pow2(8)

U16(x) == x % Pow2(16)

\* A uint32_t is kept as its two 16-bit halves, <<high, low>>: the model
\* checker's integers are narrower than 2^32.
U32(hi, lo) == << hi, lo >>

\* a + n in uint32_t, for 0 <= n < 2^16
Add32(a, n) == << U16(a[1] + ((a[2] + n) \div Pow2(16))), U16(a[2] + n) >>

\* a > b in uint32_t
Gt32(a, b) == a[1] > b[1] \/ (a[1] = b[1] /\ a[2] > b[2])

\* UINT32_MAX - n, for 0 <= n < 2^16
Max32Minus(n) == U32(Pow2(16) - 1, Pow2(16) - 1 - n)

\* bit k of x
Bit(x, k) == (x \div Pow2(k)) % 2

\* !!(x & (1 << k)) as written to a pin
PinBit(x, k) == IF Bit(x, k) = 1 THEN HIGH ELSE LOW

\* x | b for a level b in {0, 1}
OrLevel(x, b) == IF x % 2 = 1 THEN x ELSE x + b

(***************************************************************************)
(* Bounds of the model.                                                    *)
(***************************************************************************)
\* milliseconds the clock may advance during one SDO poll
MaxElapsed == 303

\* characters the Serial receive buffer may hold while loop() waits
MaxSerial == 2

\* values millis() may have when a poll starts: small ones, and the ones
\* around the point where tMillis + READING_TIMEOUT_MILLIS wraps at 2^32
StartMillis ==
    { U32(0, 0), U32(0, 1000), U32(1, Pow2(16) - 1),
      Max32Minus(READING_TIMEOUT_MILLIS + 1),
      Max32Minus(READING_TIMEOUT_MILLIS),
      Max32Minus(READING_TIMEOUT_MILLIS - 1),
      Max32Minus(0) }

\* (aValue, aAddress) pairs shiftOut is called with in the bit-level model:
\* transactions of the program and the extreme bytes
ShiftInputs ==
    { <<0, 108>>, <<64, 76>>, <<98, 44>>, <<255, 255>>, <<170, 85>> }

\* The fuse banks of the simulated target
Banks == { "low", "high", "extended" }

\* The simulated target a session starts on: every bank reads 0x00
FreshTarget == [ b \in Banks |-> 0 ]

VARIABLES
    \* ---- shiftOut(), lines 209-229
    spc,        \* position inside shiftOut
    aValue,     \* parameter
    aAddress,   \* parameter
    tMillis,    \* millis() at the start of the poll
    elapsed,    \* milliseconds since then (millis() = tMillis + elapsed mod 2^32)
    tSDIOut,    \* local
    tSIIOut,    \* local
    tInBits,    \* local
    i,          \* loop counter, int8_t
    ret,        \* returned byte
    pollExit,   \* how the poll loop ended: "high" or "timeout"
    SDI, SII, SCI,  \* levels driven on the three output lines
    events,     \* history: pin operations of the current call, in order
    samples,    \* history: SDO levels sampled in the current call
    driven,     \* history: <<SDI, SII>> levels driven in the current call
    \* ---- loop() and the operations it calls, lines 85-338
    pc,             \* position inside loop()
    step,           \* transactions completed by the operation in progress
    tReceivedChar,  \* loop() local, line 96
    tSignature,     \* loop() local, line 124
    rsSignature,    \* readSignature() local tSignature, line 327
    tIndex,         \* readSignature() loop counter, line 329
    serialBuf,      \* characters waiting in the Serial receive buffer
    VCC, RST,       \* levels driven on the two power lines
    sdoMode,        \* pinMode of SDO
    sdoOut,         \* level written to SDO
    LED,            \* LED_BUILTIN
    hung,           \* an SDO poll that can never end has been entered
    printed,        \* what the last step reported on Serial
    txlog,          \* history: <<aValue, aAddress>> of the session's shiftOut calls
    calls,          \* history: the operations the session has called
    sigResps,       \* history: what the shiftOut calls of readSignature returned
    resp,           \* history: what the shiftOut call of the last step returned
    simFuses        \* the fuse banks of the simulated target

shiftVars ==
    << spc, aValue, aAddress, tMillis, elapsed, tSDIOut, tSIIOut, tInBits, i,
       ret, pollExit, SDI, SII, SCI, events, samples, driven >>

loopVars ==
    << pc, step, tReceivedChar, tSignature, rsSignature, tIndex, serialBuf,
       VCC, RST, sdoMode, sdoOut, LED, hung, printed, txlog, calls, sigResps,
       resp, simFuses >>

vars == << shiftVars, loopVars >>

(***************************************************************************)
(* shiftOut(), lines 209-229.                                              *)
(***************************************************************************)

\* millis() while polling
Millis == Add32(tMillis, elapsed)

\* tMillis + READING_TIMEOUT_MILLIS, computed in uint32_t (line 215)
Deadline(start) == Add32(start, READING_TIMEOUT_MILLIS)

\* millis() > (tMillis + READING_TIMEOUT_MILLIS) (line 215)
TimedOut(now, start) == Gt32(now, Deadline(start))

\* tInBits <<= 1; tInBits |= digitalRead(SDO); (lines 224-225)
ShiftIn(acc, level) == OrLevel(U16(acc * 2), level)

\* A return that shifts by one bit only
ShiftOutReturn_shift1(acc) == U8(acc \div 2)

\* return tInBits >> 2; as uint8_t (line 229)
ShiftOutReturn(acc) == U8(acc \div 4)

\* A loop that stops one bit early
BitLoopContinues_short(n) == n > 0

\* i >= 0 (line 221)
BitLoopContinues(n) == n >= 0

\* A frame shifted by one place only
Frame_shift1(aByte) == U16(aByte * 2)

\* (uint16_t) aByte << 2 (lines 219-220)
Frame(aByte) == U16(aByte * 4)

\* The whole transfer as a function of the 11 sampled levels
RECURSIVE Accumulate(_, _)
Accumulate(acc, s) ==
    IF s = << >> THEN acc ELSE Accumulate(ShiftIn(acc, Head(s)), Tail(s))

ShiftOutResult(s) == ShiftOutReturn(Accumulate(0, s))

\* The state when loop() is first entered: setup() has run (lines 62-83)
Init ==
    /\ pc = "wait"
    /\ step = 0
    /\ tReceivedChar = 0
    /\ tSignature = 0
    /\ rsSignature = 0
    /\ tIndex = 0
    /\ serialBuf = << >>
    /\ VCC = LOW
    /\ RST = HIGH
    /\ sdoMode = "OUTPUT"
    /\ sdoOut = LOW
    /\ LED = LOW
    /\ hung = FALSE
    /\ printed = << >>
    /\ txlog = << >>
    /\ calls = << >>
    /\ sigResps = << >>
    /\ resp = << >>
    /\ simFuses = FreshTarget
    /\ spc = "idle"
    /\ aValue = 0
    /\ aAddress = 0
    /\ tMillis = U32(0, 0)
    /\ elapsed = 0
    /\ tSDIOut = 0
    /\ tSIIOut = 0
    /\ tInBits = 0
    /\ i = 0
    /\ ret = 0
    /\ pollExit = "none"
    /\ SDI = LOW
    /\ SII = LOW
    /\ SCI = LOW
    /\ events = << >>
    /\ samples = << >>
    /\ driven = << >>

\* Entry: parameters bound, tInBits = 0, tMillis = millis() (lines 209-213).
\* The locals of the previous call are gone; its return value was consumed.
ShiftOutCall ==
    /\ spc \in {"idle", "returned"}
    /\ \E in \in ShiftInputs, start \in StartMillis :
        /\ aValue' = in[1]
        /\ aAddress' = in[2]
        /\ tMillis' = start
    /\ elapsed' = 0
    /\ tInBits' = 0
    /\ tSDIOut' = 0
    /\ tSIIOut' = 0
    /\ i' = 0
    /\ ret' = 0
    /\ spc' = "poll"
    /\ pollExit' = "none"
    /\ events' = << >>
    /\ samples' = << >>
    /\ driven' = << >>
    /\ UNCHANGED << SDI, SII, SCI, loopVars >>

\* The millisecond clock advances while shiftOut polls
Tick ==
    /\ spc \in {"poll", "check"}
    /\ elapsed < MaxElapsed
    /\ elapsed' = elapsed + 1
    /\ UNCHANGED << spc, aValue, aAddress, tMillis, tSDIOut, tSIIOut, tInBits,
                    i, ret, pollExit, SDI, SII, SCI, events, samples, driven,
                    loopVars >>

\* Lines 219-221: the frames and the loop counter, once the poll is over.
\* tMillis is dead from here on and the clock is not read again.
LeavePoll(how) ==
    /\ pollExit' = how
    /\ tSDIOut' = Frame(aValue)
    /\ tSIIOut' = Frame(aAddress)
    /\ i' = 10
    /\ spc' = "drive"
    /\ tMillis' = U32(0, 0)
    /\ elapsed' = 0

\* while (!digitalRead(SDO)) (line 214): SDO is read high or low
PollRead ==
    /\ spc = "poll"
    /\ \E level \in {LOW, HIGH} :
        IF level = HIGH
        THEN LeavePoll("high")
        ELSE /\ spc' = "check"
             /\ UNCHANGED << tMillis, elapsed, tSDIOut, tSIIOut, i,
                             pollExit >>
    /\ UNCHANGED << aValue, aAddress, tInBits, ret, SDI, SII, SCI, events,
                    samples, driven, loopVars >>

\* if (millis() > (tMillis + READING_TIMEOUT_MILLIS)) break; (lines 215-217)
PollCheck ==
    /\ spc = "check"
    /\ IF TimedOut(Millis, tMillis)
       THEN LeavePoll("timeout")
       ELSE /\ spc' = "poll"
            /\ UNCHANGED << tMillis, elapsed, tSDIOut, tSIIOut, i, pollExit >>
    /\ UNCHANGED << aValue, aAddress, tInBits, ret, SDI, SII, SCI, events,
                    samples, driven, loopVars >>

\* digitalWrite(SDI, ...); digitalWrite(SII, ...); (lines 222-223)
DriveBit ==
    /\ spc = "drive"
    /\ SDI' = PinBit(tSDIOut, i)
    /\ SII' = PinBit(tSIIOut, i)
    /\ driven' = Append(driven, << SDI', SII' >>)
    /\ events' = Append(events, "drive")
    /\ spc' = "sample"
    /\ UNCHANGED << aValue, aAddress, tMillis, elapsed, tSDIOut, tSIIOut,
                    tInBits, i, ret, pollExit, SCI, samples, loopVars >>

\* tInBits <<= 1; tInBits |= digitalRead(SDO); (lines 224-225)
SampleBit ==
    /\ spc = "sample"
    /\ \E level \in {LOW, HIGH} :
        /\ tInBits' = ShiftIn(tInBits, level)
        /\ samples' = Append(samples, level)
    /\ events' = Append(events, "sample")
    /\ spc' = "rise"
    /\ UNCHANGED << aValue, aAddress, tMillis, elapsed, tSDIOut, tSIIOut, i,
                    ret, pollExit, SDI, SII, SCI, driven, loopVars >>

\* digitalWrite(SCI, HIGH); (line 226)
ClockHigh ==
    /\ spc = "rise"
    /\ SCI' = HIGH
    /\ events' = Append(events, "rise")
    /\ spc' = "fall"
    /\ UNCHANGED << aValue, aAddress, tMillis, elapsed, tSDIOut, tSIIOut,
                    tInBits, i, ret, pollExit, SDI, SII, samples, driven,
                    loopVars >>

\* digitalWrite(SCI, LOW); i--; i >= 0 (lines 221, 227)
ClockLow ==
    /\ spc = "fall"
    /\ SCI' = LOW
    /\ events' = Append(events, "fall")
    /\ i' = i - 1
    /\ spc' = IF BitLoopContinues(i - 1) THEN "drive" ELSE "return"
    /\ UNCHANGED << aValue, aAddress, tMillis, elapsed, tSDIOut, tSIIOut,
                    tInBits, ret, pollExit, SDI, SII, samples, driven,
                    loopVars >>

\* return tInBits >> 2; (line 229)
ShiftOutRet ==
    /\ spc = "return"
    /\ ret' = ShiftOutReturn(tInBits)
    /\ spc' = "returned"
    /\ UNCHANGED << aValue, aAddress, tMillis, elapsed, tSDIOut, tSIIOut,
                    tInBits, i, pollExit, SDI, SII, SCI, events, samples,
                    driven, loopVars >>

NextShift ==
    \/ ShiftOutCall
    \/ Tick
    \/ PollRead
    \/ PollCheck
    \/ DriveBit
    \/ SampleBit
    \/ ClockHigh
    \/ ClockLow
    \/ ShiftOutRet

SpecShift == Init /\ [][NextShift]_vars

(***************************************************************************)
(* Properties of shiftOut(), checked under SpecShift.                      *)
(***************************************************************************)

\* The byte made of the samples taken at bit positions 9..2, in that order
\* (samples[1] is the sample of position 10, samples[11] that of position 0)
SampledByte ==
    128 * samples[2] + 64 * samples[3] + 32 * samples[4] + 16 * samples[5]
    + 8 * samples[6] + 4 * samples[7] + 2 * samples[8] + samples[9]

\* C1: whatever the parameters and the 11 levels sampled on SDO, shiftOut
\* returns the byte made of the samples of positions 9..2, most significant
\* first; the samples of positions 10, 1 and 0 have no influence on it.
C1_ReturnIsSampledByte ==
    spc = "returned" =>
        /\ Len(samples) = 11
        /\ ret = SampledByte
        /\ ret = ShiftOutResult(samples)
        /\ ret \in 0..255

\* C1 witness: a call returned 0xA5 although positions 10, 1 and 0 were high
C1_Witness ==
    /\ spc = "returned"
    /\ samples = << 1, 1, 0, 1, 0, 0, 1, 0, 1, 1, 1 >>
    /\ ret = 165

\* The k-th pin operation of a call
StepKind(k) ==
    CASE k % 4 = 1 -> "drive"
      [] k % 4 = 2 -> "sample"
      [] k % 4 = 3 -> "rise"
      [] OTHER -> "fall"

\* C2: every shiftOut call makes exactly 11 SCI pulses (HIGH then LOW),
\* however the SDO poll ended; in each bit step SDI and SII are driven, then
\* SDO is sampled, then SCI is raised, then SCI is lowered.
C2_ElevenPulsesInOrder ==
    /\ Len(events) <= 44
    /\ \A k \in 1..Len(events) : events[k] = StepKind(k)
    /\ (SCI = HIGH) <=> (spc = "fall")
    /\ spc \in {"return", "returned"} =>
          /\ Len(events) = 44
          /\ Cardinality({k \in 1..44 : events[k] = "rise"}) = 11
          /\ Cardinality({k \in 1..44 : events[k] = "fall"}) = 11
          /\ pollExit \in {"high", "timeout"}

\* C2 witness: a call whose poll timed out has returned after 11 pulses
C2_Witness ==
    /\ spc = "returned"
    /\ pollExit = "timeout"
    /\ Len(events) = 44
    /\ events[43] = "rise"
    /\ events[44] = "fall"

\* C3: with SDO low, the poll loop is left at the first timeout check made
\* after the clock has passed the start time plus READING_TIMEOUT_MILLIS,
\* whatever value millis() had when the poll started.
C3_PollLeftAfterTimeout ==
    [][(spc = "check" /\ elapsed > READING_TIMEOUT_MILLIS) => spc' # "poll"]_vars

(***************************************************************************)
(* loop() and the protocol operations, lines 85-338.  One step is one      *)
(* shiftOut() transaction (poll, 11 bits, return) or one statement group   *)
(* of loop() between two delays.                                           *)
(***************************************************************************)

\* Characters the operator may type: 'r', 'R', 'e', 'E' and another one ('w')
Chars == { 114, 82, 101, 69, 119 }

\* tReceivedChar == 'r' || tReceivedChar == 'R' (lines 139, 163, 181)
IsReadOnly(c) == c = 114 \/ c = 82

\* An erase test that forgets the upper-case 'E'
IsErase_lower(c) == c = 101

\* tReceivedChar == 'e' || tReceivedChar == 'E' (lines 132, 139, 163)
IsErase(c) == c = 101 \/ c = 69

\* A write condition that forgets the 'e' test
WritesDefaults_noEraseTest(c) == ~IsReadOnly(c)

\* A write condition that forgets the 'r' test
WritesDefaults_noReadTest(c) == ~IsErase(c)

\* tReceivedChar != 'e' && != 'E' && != 'r' && != 'R' (lines 139, 163)
WritesDefaults(c) == ~IsErase(c) /\ ~IsReadOnly(c)

\* A verification test that forgets the upper-case 'R'
Verifies_lower(c) == c # 114

\* tReceivedChar != 'r' && tReceivedChar != 'R' (line 181)
Verifies(c) == ~IsReadOnly(c)

\* Serial.read(): the first waiting character, or -1 (line 102)
SerialRead == IF serialBuf = << >> THEN -1 ELSE Head(serialBuf)

\* A test that compares the high signature byte only
IsTiny13_highByte(sig) == sig \div 256 = ATTINY13 \div 256

\* tSignature == ATTINY13 (line 136)
IsTiny13(sig) == sig = ATTINY13

\* The six-way test of lines 146-147
IsTinyX4X5(sig) ==
    sig \in { ATTINY24, ATTINY44, ATTINY84, ATTINY25, ATTINY45, ATTINY85 }

\* Bytes the target may answer with in the session model: the bytes of the
\* known signatures, 0x00, 0x62 and 0xFF
RespBytes == { 0, 6, 7, 8, 11, 12, 98, 144, 145, 146, 147, 255 }

\* The 11 SDO levels that carry byte b at positions 9..2, with level pad at
\* positions 10, 1 and 0
SamplesOf(b, pad) ==
    << pad, Bit(b, 7), Bit(b, 6), Bit(b, 5), Bit(b, 4), Bit(b, 3), Bit(b, 2),
       Bit(b, 1), Bit(b, 0), pad, pad >>

\* What shiftOut may return in the session model
Responses ==
    { ShiftOutResult(SamplesOf(b, pad)) : b \in RespBytes, pad \in {LOW, HIGH} }

\* What the data transaction of a fuse read may return in the session
\* model: 0x00, the five values of the table of defaults (0x62, 0x6A, 0xDF,
\* 0xFF) and 0x9D
FuseBytes == { 0, 98, 106, 157, 223, 255 }

FuseResponses ==
    { ShiftOutResult(SamplesOf(b, pad)) : b \in FuseBytes, pad \in {LOW, HIGH} }

\* What the data transaction of a lock-bit read may return in the session
\* model: every value of bits 1 and 0 under upper bits all 0 and all 1
LockBytes == { 0, 1, 2, 3, 252, 253, 254, 255 }

LockResponses ==
    { ShiftOutResult(SamplesOf(b, pad)) : b \in LockBytes, pad \in {LOW, HIGH} }

\* What a shiftOut whose return value the caller drops may return in the
\* session model
UnusedResponses ==
    { ShiftOutResult(SamplesOf(b, pad)) : b \in {0, 255}, pad \in {LOW, HIGH} }

\* With SDO held low, the poll that started at `start` ends iff some value
\* of the 32-bit clock exceeds the deadline, i.e. iff the largest one does
PollCanTimeOut(start) == TimedOut(Max32Minus(0), start)

\* The transactions of readSignature for one index (lines 330-333)
ReadSignatureTx(idx, k) ==
    CASE k = 1 -> << 8, 76 >>
      [] k = 2 -> << idx, 12 >>
      [] k = 3 -> << 0, 104 >>
      [] k = 4 -> << 0, 108 >>

\* An accumulation that puts the new byte on top
SignatureFold_swapped(acc, b) == U16(b * 256 + acc)

\* tSignature = (tSignature << 8) + tValue; in uint16_t (line 334)
SignatureFold(acc, b) == U16(acc * 256 + b)

\* tIndex < 3 (line 329)
SignatureLoopContinues(idx) == idx < 3

\* A fuse read that strobes the extended bank before the high one
ReadFusesTx_extendedFirst(k) ==
    CASE k = 1 -> << 4, 76 >>
      [] k = 2 -> << 0, 104 >>
      [] k = 3 -> << 0, 108 >>
      [] k = 4 -> << 4, 76 >>
      [] k = 5 -> << 0, 106 >>
      [] k = 6 -> << 0, 110 >>
      [] k = 7 -> << 4, 76 >>
      [] k = 8 -> << 0, 122 >>
      [] k = 9 -> << 0, 126 >>

\* The transactions of readFuses (lines 306-320)
ReadFusesTx(k) ==
    CASE k = 1 -> << 4, 76 >>
      [] k = 2 -> << 0, 104 >>
      [] k = 3 -> << 0, 108 >>
      [] k = 4 -> << 4, 76 >>
      [] k = 5 -> << 0, 122 >>
      [] k = 6 -> << 0, 126 >>
      [] k = 7 -> << 4, 76 >>
      [] k = 8 -> << 0, 106 >>
      [] k = 9 -> << 0, 110 >>

\* The label readFuses prints a value under (lines 309, 315, 321)
FuseLabel(k) ==
    CASE k = 3 -> "LFuse"
      [] k = 6 -> "HFuse"
      [] k = 9 -> "EFuse"

\* The transactions of readLockBits (lines 240-242)
ReadLockBitsTx(k) ==
    CASE k = 1 -> << 4, 76 >>
      [] k = 2 -> << 0, 120 >>
      [] k = 3 -> << 0, 124 >>

\* A report that reads a set bit as programmed
LockText_direct(v, bit) ==
    IF Bit(v, bit) = 1 THEN "Programmed" ELSE "Not Programmed"

\* The report of one lock bit (lines 249-256)
LockText(v, bit) ==
    IF Bit(v, bit) = 1 THEN "Not Programmed" ELSE "Programmed"

\* The transactions of eraseFlashAndLockBits (lines 272-274)
EraseTx(k) ==
    CASE k = 1 -> << 128, 76 >>
      [] k = 2 -> << 0, 100 >>
      [] k = 3 -> << 0, 108 >>

\* A write sequence that sends the low address byte before the high one
WriteFuseTx_lowFirst(aFuseAddress, aFuseValue, k) ==
    CASE k = 1 -> << 64, 76 >>
      [] k = 2 -> << aFuseValue, 44 >>
      [] k = 3 -> << 0, U8(aFuseAddress) >>
      [] k = 4 -> << 0, U8(aFuseAddress \div 256) >>

\* A write sequence whose data transaction has its two arguments exchanged
WriteFuseTx_exchanged(aFuseAddress, aFuseValue, k) ==
    CASE k = 1 -> << 64, 76 >>
      [] k = 2 -> << 44, aFuseValue >>
      [] k = 3 -> << 0, U8(aFuseAddress \div 256) >>
      [] k = 4 -> << 0, U8(aFuseAddress) >>

\* The transactions of writeFuse (lines 293-296)
WriteFuseTx(aFuseAddress, aFuseValue, k) ==
    CASE k = 1 -> << 64, 76 >>
      [] k = 2 -> << aFuseValue, 44 >>
      [] k = 3 -> << 0, U8(aFuseAddress \div 256) >>
      [] k = 4 -> << 0, U8(aFuseAddress) >>

\* The writeFuse call sites of loop() and their arguments
\* (lines 141, 143, 165, 167, 169)
WriteSites == { "wr13_l", "wr13_h", "wr_l", "wr_h", "wr_e" }

\* A table whose ATtiny13 low fuse got the other family's value
WriteArgs_swapped(site) ==
    CASE site = "wr13_l" -> << LFUSE, 98 >>
      [] site = "wr13_h" -> << HFUSE, 255 >>
      [] site = "wr_l" -> << LFUSE, 98 >>
      [] site = "wr_h" -> << HFUSE, 223 >>
      [] site = "wr_e" -> << EFUSE, 255 >>

WriteArgs(site) ==
    CASE site = "wr13_l" -> << LFUSE, 106 >>
      [] site = "wr13_h" -> << HFUSE, 255 >>
      [] site = "wr_l" -> << LFUSE, 98 >>
      [] site = "wr_h" -> << HFUSE, 223 >>
      [] site = "wr_e" -> << EFUSE, 255 >>

\* Where loop() continues after a writeFuse call
AfterWrite(site) ==
    CASE site = "wr13_l" -> "wr13_h"
      [] site = "wr13_h" -> "verify_q"
      [] site = "wr_l" -> "wr_h"
      [] site = "wr_h" -> "wr_e"
      [] site = "wr_e" -> "verify_q"

\* The simulated target: the bank that the two address bytes of a write
\* sequence select
WriteSelect(hi, lo) ==
    CASE hi * 256 + lo = LFUSE -> "low"
      [] hi * 256 + lo = HFUSE -> "high"
      [] hi * 256 + lo = EFUSE -> "extended"
      [] OTHER -> "none"

\* The simulated target: the bank that the two address bytes of a read
\* sequence select
ReadSelect(a1, a2) ==
    CASE << a1, a2 >> = << 104, 108 >> -> "low"
      [] << a1, a2 >> = << 122, 126 >> -> "high"
      [] << a1, a2 >> = << 106, 110 >> -> "extended"
      [] OTHER -> "none"

\* The simulated target: the bank a write sequence that ends with the last
\* transaction of log stores into, "none" if no write sequence ends there
Stored(log) ==
    LET n == Len(log)
    IN  IF /\ n >= 4
           /\ log[n - 3] = << 64, 76 >>
           /\ log[n - 2][2] = 44
           /\ log[n - 1][1] = 0
           /\ log[n][1] = 0
        THEN WriteSelect(log[n - 1][2], log[n][2])
        ELSE "none"

\* The simulated target: its banks after the last transaction of log; a
\* completed write sequence stores its data byte in the selected bank
TargetStore(fuses, log) ==
    IF Stored(log) = "none"
    THEN fuses
    ELSE [ fuses EXCEPT ![Stored(log)] = log[Len(log) - 2][1] ]

\* The simulated target: the bank it shifts out on SDO during the last
\* transaction of log, "none" if that is not the data transaction of a
\* fuse read sequence
ShiftedOut(log) ==
    LET n == Len(log)
    IN  IF /\ n >= 3
           /\ log[n - 2] = << 4, 76 >>
           /\ log[n - 1][1] = 0
           /\ log[n][1] = 0
        THEN ReadSelect(log[n - 1][2], log[n][2])
        ELSE "none"

\* What a returned shiftOut(tx[1], tx[2]) leaves behind: the lines carry the
\* last bit of the frames, the clock is low
Returned(tx) ==
    /\ txlog' = Append(txlog, tx)
    /\ simFuses' = TargetStore(simFuses, Append(txlog, tx))
    /\ SDI' = PinBit(Frame(tx[1]), 0)
    /\ SII' = PinBit(Frame(tx[2]), 0)
    /\ SCI' = LOW

\* The operation entered by the first transaction of a call
Called(op) == calls' = IF step = 0 THEN Append(calls, op) ELSE calls

shiftLocals ==
    << spc, aValue, aAddress, tMillis, elapsed, tSDIOut, tSIIOut, tInBits, i,
       ret, pollExit, events, samples, driven >>

\* Characters arrive on Serial while loop() waits
SerialArrives ==
    /\ pc = "wait"
    /\ Len(serialBuf) < MaxSerial
    /\ \E c \in Chars : serialBuf' = Append(serialBuf, c)
    /\ UNCHANGED << pc, step, tReceivedChar, tSignature, rsSignature, tIndex,
                    VCC, RST, sdoMode, sdoOut, LED, hung, printed, txlog,
                    calls, SDI, SII, SCI, shiftLocals, sigResps, resp,
                    simFuses >>

\* Lines 87-98: a new pass of loop(): the locals and the history of the
\* previous pass are gone, the prompt is printed, tReceivedChar = 0, and the
\* wait is left because a character is available or the button reads
\* pressed (LOW); the pass is made on a fresh target
WaitTrigger ==
    /\ pc = "wait"
    /\ \E button \in {LOW, HIGH} : ~(serialBuf = << >> /\ button = HIGH)
    /\ tReceivedChar' = 0
    /\ tSignature' = 0
    /\ txlog' = << >>
    /\ calls' = << >>
    /\ sigResps' = << >>
    /\ printed' = << "prompt" >>
    /\ pc' = "decide"
    /\ resp' = << >>
    /\ simFuses' = FreshTarget
    /\ UNCHANGED << step, rsSignature, tIndex, serialBuf, VCC, RST, sdoMode,
                    sdoOut, LED, hung, SDI, SII, SCI, shiftLocals >>

\* Line 100: the button is read again; loop() returns when it reads
\* released and nothing is available
Decide ==
    /\ pc = "decide"
    /\ \E button \in {LOW, HIGH} :
        pc' = IF button = LOW \/ Len(serialBuf) > 0 THEN "start" ELSE "wait"
    /\ printed' = << >>
    /\ resp' = << >>
    /\ UNCHANGED << step, tReceivedChar, tSignature, rsSignature, tIndex,
                    serialBuf, VCC, RST, sdoMode, sdoOut, LED, hung, txlog,
                    calls, SDI, SII, SCI, shiftLocals, sigResps, simFuses >>

\* Lines 102-116: the command is read, the buffer drained, the lines set up
StartSession ==
    /\ pc = "start"
    /\ tReceivedChar' = SerialRead
    /\ serialBuf' = << >>
    /\ LED' = HIGH
    /\ sdoMode' = "OUTPUT"
    /\ SDI' = LOW
    /\ SII' = LOW
    /\ sdoOut' = LOW
    /\ RST' = HIGH
    /\ pc' = "vcc_on"
    /\ resp' = << >>
    /\ UNCHANGED << step, tSignature, rsSignature, tIndex, VCC, hung, printed,
                    txlog, calls, SCI, shiftLocals, sigResps, simFuses >>

\* Lines 117-118: digitalWrite(VCC, HIGH)
VccOn ==
    /\ pc = "vcc_on"
    /\ VCC' = HIGH
    /\ pc' = "rst_on"
    /\ resp' = << >>
    /\ UNCHANGED << step, tReceivedChar, tSignature, rsSignature, tIndex,
                    serialBuf, RST, sdoMode, sdoOut, LED, hung, printed,
                    txlog, calls, SDI, SII, SCI, shiftLocals, sigResps,
                    simFuses >>

\* Lines 119-120: digitalWrite(RST, LOW), 12 V on
RstOn ==
    /\ pc = "rst_on"
    /\ RST' = LOW
    /\ pc' = "sdo_in"
    /\ resp' = << >>
    /\ UNCHANGED << step, tReceivedChar, tSignature, rsSignature, tIndex,
                    serialBuf, VCC, sdoMode, sdoOut, LED, hung, printed,
                    txlog, calls, SDI, SII, SCI, shiftLocals, sigResps,
                    simFuses >>

\* A power-up that leaves SDO an output
SdoInput_stillOutput ==
    /\ pc = "sdo_in"
    /\ sdoMode' = "OUTPUT"
    /\ printed' = << "Reading signature" >>
    /\ pc' = "sig"
    /\ resp' = << >>
    /\ UNCHANGED << step, tReceivedChar, tSignature, rsSignature, tIndex,
                    serialBuf, VCC, RST, LED, hung, txlog, calls, SDI, SII,
                    SCI, shiftLocals, sigResps, sdoOut, simFuses >>

\* Lines 121-123: pinMode(SDO, INPUT)
SdoInput ==
    /\ pc = "sdo_in"
    /\ sdoMode' = "INPUT"
    /\ printed' = << "Reading signature" >>
    /\ pc' = "sig"
    /\ resp' = << >>
    /\ UNCHANGED << step, tReceivedChar, tSignature, rsSignature, tIndex,
                    serialBuf, VCC, RST, LED, hung, txlog, calls, SDI, SII,
                    SCI, shiftLocals, sigResps, sdoOut, simFuses >>

\* readSignature(), lines 326-338, one transaction per step; on return its
\* locals are gone and loop() stores and prints the result (lines 124-127)
ReadSignatureStep ==
    /\ pc = "sig"
    /\ ~hung
    /\ LET idx == IF step = 0 THEN 1 ELSE tIndex
           acc == IF step = 0 THEN 0 ELSE rsSignature
           k == (step % 4) + 1
       IN  \E r \in (IF k < 4 THEN UnusedResponses ELSE Responses) :
            /\ Returned(ReadSignatureTx(idx, k))
            /\ Called(<< "readSignature" >>)
            /\ sigResps' = Append(sigResps, r)
            /\ resp' = << r >>
            /\ IF k < 4
               THEN /\ step' = step + 1
                    /\ tIndex' = idx
                    /\ rsSignature' = acc
                    /\ UNCHANGED << tSignature, pc, printed >>
               ELSE IF SignatureLoopContinues(idx + 1)
                    THEN /\ rsSignature' = SignatureFold(acc, r)
                         /\ tIndex' = idx + 1
                         /\ step' = step + 1
                         /\ UNCHANGED << tSignature, pc, printed >>
                    ELSE /\ rsSignature' = 0
                         /\ tIndex' = 0
                         /\ step' = 0
                         /\ tSignature' = SignatureFold(acc, r)
                         /\ printed' = << "Signature", SignatureFold(acc, r) >>
                         /\ pc' = "fuses1"
    /\ UNCHANGED << tReceivedChar, serialBuf, VCC, RST, sdoMode, sdoOut, LED,
                    hung, shiftLocals >>

\* readFuses(), lines 301-324, one transaction per step; tValue is printed
\* by the step that assigns it and read nowhere else
ReadFusesStep ==
    /\ pc \in {"fuses1", "fuses2"}
    /\ ~hung
    /\ \E r \in (IF (step + 1) % 3 = 0 THEN FuseResponses
                                      ELSE UnusedResponses) :
        /\ Returned(ReadFusesTx(step + 1))
        /\ Called(<< "readFuses" >>)
        /\ resp' = << r >>
        /\ IF (step + 1) % 3 = 0
           THEN LET tValue == r IN printed' = << FuseLabel(step + 1), tValue >>
           ELSE printed' = << >>
    /\ IF step + 1 < 9
       THEN /\ step' = step + 1
            /\ UNCHANGED pc
       ELSE /\ step' = 0
            /\ pc' = IF pc = "fuses1" THEN "lock1" ELSE "lock2"
    /\ sigResps' = << >>
    /\ UNCHANGED << tReceivedChar, tSignature, rsSignature, tIndex, serialBuf,
                    VCC, RST, sdoMode, sdoOut, LED, hung, shiftLocals >>

\* readLockBits(), lines 236-256, one transaction per step
ReadLockBitsStep ==
    /\ pc \in {"lock1", "lock2"}
    /\ ~hung
    /\ step < 3
    /\ \E r \in (IF step + 1 = 3 THEN LockResponses ELSE UnusedResponses) :
        /\ Returned(ReadLockBitsTx(step + 1))
        /\ Called(<< "readLockBits" >>)
        /\ resp' = << r >>
        /\ IF step + 1 = 3
           THEN LET tValue == r
                IN  printed' = << "Lock", tValue, LockText(tValue, 0),
                                  LockText(tValue, 1) >>
           ELSE printed' = << >>
    /\ step' = step + 1
    /\ UNCHANGED << pc, tReceivedChar, tSignature, rsSignature, tIndex,
                    serialBuf, VCC, RST, sdoMode, sdoOut, LED, hung,
                    shiftLocals, sigResps >>

\* readLockBits(), lines 258-267: the closing SDO poll ends and it returns
ReadLockBitsWait ==
    /\ pc \in {"lock1", "lock2"}
    /\ ~hung
    /\ step = 3
    /\ step' = 0
    /\ printed' = << "Reading Lock Bits complete" >>
    /\ pc' = IF pc = "lock1" THEN "erase_q" ELSE "pd_sci"
    /\ resp' = << >>
    /\ UNCHANGED << tReceivedChar, tSignature, rsSignature, tIndex, serialBuf,
                    VCC, RST, sdoMode, sdoOut, LED, hung, txlog, calls, SDI,
                    SII, SCI, shiftLocals, sigResps, simFuses >>

\* Line 132: if (tReceivedChar == 'e' || tReceivedChar == 'E')
EraseDecision ==
    /\ pc = "erase_q"
    /\ pc' = IF IsErase(tReceivedChar) THEN "erase" ELSE "dispatch"
    /\ printed' = << >>
    /\ resp' = << >>
    /\ UNCHANGED << step, tReceivedChar, tSignature, rsSignature, tIndex,
                    serialBuf, VCC, RST, sdoMode, sdoOut, LED, hung, txlog,
                    calls, SDI, SII, SCI, shiftLocals, sigResps, simFuses >>

\* eraseFlashAndLockBits(), lines 269-274, one transaction per step
EraseStep ==
    /\ pc = "erase"
    /\ ~hung
    /\ step < 3
    /\ \E r \in UnusedResponses :
        /\ Returned(EraseTx(step + 1))
        /\ Called(<< "eraseFlashAndLockBits" >>)
        /\ resp' = << r >>
    /\ step' = step + 1
    /\ printed' = << >>
    /\ UNCHANGED << pc, tReceivedChar, tSignature, rsSignature, tIndex,
                    serialBuf, VCC, RST, sdoMode, sdoOut, LED, hung,
                    shiftLocals, sigResps >>

\* eraseFlashAndLockBits(), lines 276-285: the closing SDO poll ends
EraseWait ==
    /\ pc = "erase"
    /\ ~hung
    /\ step = 3
    /\ step' = 0
    /\ printed' = << "Erasing complete" >>
    /\ pc' = "dispatch"
    /\ resp' = << >>
    /\ UNCHANGED << tReceivedChar, tSignature, rsSignature, tIndex, serialBuf,
                    VCC, RST, sdoMode, sdoOut, LED, hung, txlog, calls, SDI,
                    SII, SCI, shiftLocals, sigResps, simFuses >>

\* Lines 136-171: the branch on the signature, up to the first writeFuse
\* call or the end of the branch
Dispatch ==
    /\ pc = "dispatch"
    /\ IF IsTiny13(tSignature)
       THEN /\ printed' = << "detected", tSignature >>
            /\ pc' = IF WritesDefaults(tReceivedChar) THEN "wr13_l" ELSE "verify_q"
       ELSE IF IsTinyX4X5(tSignature)
       THEN /\ printed' = << "detected", tSignature >>
            /\ pc' = IF WritesDefaults(tReceivedChar) THEN "wr_l" ELSE "verify_q"
       ELSE /\ printed' = << >>
            /\ pc' = "release"
    /\ resp' = << >>
    /\ UNCHANGED << step, tReceivedChar, tSignature, rsSignature, tIndex,
                    serialBuf, VCC, RST, sdoMode, sdoOut, LED, hung, txlog,
                    calls, SDI, SII, SCI, shiftLocals, sigResps, simFuses >>

\* writeFuse(), lines 287-299, one transaction per step
WriteFuseStep ==
    /\ pc \in WriteSites
    /\ ~hung
    /\ LET aFuseAddress == WriteArgs(pc)[1]
           aFuseValue == WriteArgs(pc)[2]
       IN  \E r \in UnusedResponses :
            /\ Returned(WriteFuseTx(aFuseAddress, aFuseValue, step + 1))
            /\ Called(<< "writeFuse", aFuseAddress, aFuseValue >>)
            /\ resp' = << r >>
    /\ IF step + 1 < 4
       THEN /\ step' = step + 1
            /\ printed' = << >>
            /\ UNCHANGED pc
       ELSE /\ step' = 0
            /\ printed' = << "Writing complete." >>
            /\ pc' = AfterWrite(pc)
    /\ UNCHANGED << tReceivedChar, tSignature, rsSignature, tIndex, serialBuf,
                    VCC, RST, sdoMode, sdoOut, LED, hung, shiftLocals,
                    sigResps >>

\* The unrecognized branch with the return of line 179 taken: loop() is left
\* right after the report
ReleaseWait_return ==
    /\ pc = "release"
    /\ \E button \in {LOW, HIGH} : button = HIGH
    /\ printed' = << "No valid ATtiny signature detected! Try again." >>
    /\ pc' = "wait"
    /\ resp' = << >>
    /\ UNCHANGED << step, tReceivedChar, tSignature, rsSignature, tIndex,
                    serialBuf, VCC, RST, sdoMode, sdoOut, LED, hung, txlog,
                    calls, SDI, SII, SCI, shiftLocals, sigResps, simFuses >>

\* Lines 172-177: the unrecognized branch waits until the button reads
\* released (HIGH), then reports
ReleaseWait ==
    /\ pc = "release"
    /\ \E button \in {LOW, HIGH} : button = HIGH
    /\ printed' = << "No valid ATtiny signature detected! Try again." >>
    /\ pc' = "verify_q"
    /\ resp' = << >>
    /\ UNCHANGED << step, tReceivedChar, tSignature, rsSignature, tIndex,
                    serialBuf, VCC, RST, sdoMode, sdoOut, LED, hung, txlog,
                    calls, SDI, SII, SCI, shiftLocals, sigResps, simFuses >>

\* Line 181: if (tReceivedChar != 'r' && tReceivedChar != 'R')
VerifyDecision ==
    /\ pc = "verify_q"
    /\ pc' = IF Verifies(tReceivedChar) THEN "fuses2" ELSE "pd_sci"
    /\ printed' = << >>
    /\ resp' = << >>
    /\ UNCHANGED << step, tReceivedChar, tSignature, rsSignature, tIndex,
                    serialBuf, VCC, RST, sdoMode, sdoOut, LED, hung, txlog,
                    calls, SDI, SII, SCI, shiftLocals, sigResps, simFuses >>

\* Line 187: digitalWrite(SCI, LOW)
PowerDownSCI ==
    /\ pc = "pd_sci"
    /\ SCI' = LOW
    /\ printed' = << >>
    /\ pc' = "pd_vcc"
    /\ resp' = << >>
    /\ UNCHANGED << step, tReceivedChar, tSignature, rsSignature, tIndex,
                    serialBuf, VCC, RST, sdoMode, sdoOut, LED, hung, txlog,
                    calls, SDI, SII, shiftLocals, sigResps, simFuses >>

\* Line 188: digitalWrite(VCC, LOW)
PowerDownVCC ==
    /\ pc = "pd_vcc"
    /\ VCC' = LOW
    /\ pc' = "pd_rst"
    /\ resp' = << >>
    /\ UNCHANGED << step, tReceivedChar, tSignature, rsSignature, tIndex,
                    serialBuf, RST, sdoMode, sdoOut, LED, hung, printed,
                    txlog, calls, SDI, SII, SCI, shiftLocals, sigResps,
                    simFuses >>

\* Lines 189-194: digitalWrite(RST, HIGH), the LED off, loop() returns
PowerDownRST ==
    /\ pc = "pd_rst"
    /\ RST' = HIGH
    /\ LED' = LOW
    /\ pc' = "wait"
    /\ resp' = << >>
    /\ UNCHANGED << step, tReceivedChar, tSignature, rsSignature, tIndex,
                    serialBuf, VCC, sdoMode, sdoOut, hung, printed, txlog,
                    calls, SDI, SII, SCI, shiftLocals, sigResps, simFuses >>

\* Where loop() is inside an SDO poll: before every transaction and in the
\* closing waits of readLockBits and eraseFlashAndLockBits
PollSites ==
    { "sig", "fuses1", "fuses2", "lock1", "lock2", "erase" } \cup WriteSites

\* Lines 214-218, 260-264, 278-282 with SDO held low: a poll entered at a
\* clock value whose deadline no clock value exceeds never ends
PollHangs ==
    /\ pc \in PollSites
    /\ ~hung
    /\ \E start \in StartMillis : ~PollCanTimeOut(start)
    /\ hung' = TRUE
    /\ UNCHANGED << pc, step, tReceivedChar, tSignature, rsSignature, tIndex,
                    serialBuf, VCC, RST, sdoMode, sdoOut, LED, printed, txlog,
                    calls, SDI, SII, SCI, shiftLocals, sigResps, resp,
                    simFuses >>

Next ==
    \/ SerialArrives
    \/ WaitTrigger
    \/ Decide
    \/ StartSession
    \/ VccOn
    \/ RstOn
    \/ SdoInput
    \/ ReadSignatureStep
    \/ ReadFusesStep
    \/ ReadLockBitsStep
    \/ ReadLockBitsWait
    \/ EraseDecision
    \/ EraseStep
    \/ EraseWait
    \/ Dispatch
    \/ WriteFuseStep
    \/ ReleaseWait
    \/ VerifyDecision
    \/ PowerDownSCI
    \/ PowerDownVCC
    \/ PowerDownRST
    \/ PollHangs

Spec == Init /\ [][Next]_vars

\* The steps the processor takes by itself: everything but the arrival of
\* characters and the entry into a poll that cannot end
Runs ==
    \/ WaitTrigger
    \/ Decide
    \/ StartSession
    \/ VccOn
    \/ RstOn
    \/ SdoInput
    \/ ReadSignatureStep
    \/ ReadFusesStep
    \/ ReadLockBitsStep
    \/ ReadLockBitsWait
    \/ EraseDecision
    \/ EraseStep
    \/ EraseWait
    \/ Dispatch
    \/ WriteFuseStep
    \/ ReleaseWait
    \/ VerifyDecision
    \/ PowerDownSCI
    \/ PowerDownVCC
    \/ PowerDownRST

\* The processor keeps executing, every bounded wait that can end does end,
\* and a pressed button is released at some time
FairSpec == Spec /\ WF_vars(Runs)

\* The simulated target answers the data transaction of a fuse read
\* sequence: it holds SDO so that the 8 samples the return value is made of
\* are the bits of the selected bank
TargetAnswers ==
    (txlog' # txlog /\ ShiftedOut(txlog') # "none") =>
        \E pad \in {LOW, HIGH} :
            resp' = << ShiftOutResult(
                          SamplesOf(simFuses'[ShiftedOut(txlog')], pad)) >>

\* The sessions against the simulated target
NextSim == Next /\ TargetAnswers

SpecSim == Init /\ [][NextSim]_vars

(***************************************************************************)
(* Properties of the sessions, checked under Spec and FairSpec.            *)
(***************************************************************************)

\* 0x9007, 0x910B, 0x9108, 0x9207, 0x9206, 0x930C, 0x930B
KnownSignatures == { 36871, 37131, 37128, 37383, 37382, 37644, 37643 }

\* The documented (high, low) signature bytes of the seven devices
KnownBytePairs ==
    { << 144, 7, 36871 >>, << 145, 11, 37131 >>, << 145, 8, 37128 >>,
      << 146, 7, 37383 >>, << 146, 6, 37382 >>, << 147, 12, 37644 >>,
      << 147, 11, 37643 >> }

\* The requested mode, from the received character
ModeReadOnly == tReceivedChar \in { 114, 82 }

ModeErase == tReceivedChar \in { 101, 69 }

ModeWriteDefaults == ~ModeReadOnly /\ ~ModeErase

\* A session is running or over: its first transaction has been issued
InSession == calls # << >>

\* ... whose signature has been read
SignatureRead == InSession /\ Len(txlog) >= 8

\* ... and whose transactions are all done
Finished == SignatureRead /\ pc \in { "pd_sci", "pd_vcc", "pd_rst", "wait" }

HasTx(tx) == \E k \in DOMAIN txlog : txlog[k] = tx

CountTx(tx) == Cardinality({ k \in DOMAIN txlog : txlog[k] = tx })

CountCalls(op) == Cardinality({ k \in DOMAIN calls : calls[k][1] = op })

IsWriteCall(c) == c[1] = "writeFuse"

\* (0x40,0x4C) opens a write sequence, (0x80,0x4C) an erase sequence
WriteIssued == HasTx(<< 64, 76 >>) \/ CountCalls("writeFuse") > 0

EraseIssued == HasTx(<< 128, 76 >>) \/ CountCalls("eraseFlashAndLockBits") > 0

SignatureTxs ==
    << << 8, 76 >>, << 1, 12 >>, << 0, 104 >>, << 0, 108 >>,
       << 8, 76 >>, << 2, 12 >>, << 0, 104 >>, << 0, 108 >> >>

FuseReadTxs ==
    << << 4, 76 >>, << 0, 104 >>, << 0, 108 >>,
       << 4, 76 >>, << 0, 122 >>, << 0, 126 >>,
       << 4, 76 >>, << 0, 106 >>, << 0, 110 >> >>

LockReadTxs == << << 4, 76 >>, << 0, 120 >>, << 0, 124 >> >>

EraseTxs == << << 128, 76 >>, << 0, 100 >>, << 0, 108 >> >>

InitialReadTxs == SignatureTxs \o FuseReadTxs \o LockReadTxs

Take(a, n) == SubSeq(a, 1, IF Len(a) < n THEN Len(a) ELSE n)

IsPrefix(a, b) == Len(a) <= Len(b) /\ \A k \in 1..Len(a) : a[k] = b[k]

\* C4: readSignature issues (0x08,0x4C), (index,0x0C), (0x00,0x68),
\* (0x00,0x6C) for index 1 then index 2 and nothing else, and returns
\* (b1 << 8) + b2 for the responses b1, b2 of the 4th and the 8th
\* transaction; the documented byte pair of each known device gives its
\* constant, and the swapped pair does not.
C4_SignatureAssembly ==
    /\ InSession => IsPrefix(Take(txlog, 8), SignatureTxs)
    /\ pc = "sig" => /\ sigResps = << >> \/ calls = << << "readSignature" >> >>
                     /\ Len(sigResps) = Len(txlog)
                     /\ Len(txlog) < 8
    /\ (pc = "fuses1" /\ step = 0) =>
          /\ txlog = SignatureTxs
          /\ calls = << << "readSignature" >> >>
          /\ Len(sigResps) = 8
          /\ tSignature = sigResps[4] * 256 + sigResps[8]
          /\ \A d \in KnownBytePairs :
                /\ (sigResps[4] = d[1] /\ sigResps[8] = d[2]) => tSignature = d[3]
                /\ (sigResps[4] = d[2] /\ sigResps[8] = d[1]) => tSignature # d[3]

\* C4 witness: readSignature has returned 0x930B for the responses 0x93, 0x0B
C4_Witness ==
    /\ pc = "fuses1"
    /\ step = 0
    /\ Len(sigResps) = 8
    /\ sigResps[4] = 147
    /\ sigResps[8] = 11
    /\ sigResps[3] = 255
    /\ tSignature = 37643

\* C5: a fuse-write sequence is issued only in a session whose signature is
\* one of the seven known ones and whose mode is write-defaults.
C5_WriteOnlyKnownAndDefaults ==
    (WriteIssued \/ pc \in WriteSites) =>
        /\ SignatureRead
        /\ tSignature \in KnownSignatures
        /\ ModeWriteDefaults

\* C5 witness: a session started by the button (no character) on an
\* ATtiny13 is over and has written
C5_Witness ==
    /\ pc = "wait"
    /\ tReceivedChar = -1
    /\ tSignature = 36871
    /\ HasTx(<< 64, 76 >>)

\* The writeFuse calls of the device table, and their transactions
TableWrites(sig) ==
    IF sig = 36871
    THEN << << "writeFuse", 25708, 106 >>, << "writeFuse", 29820, 255 >> >>
    ELSE IF sig \in KnownSignatures
    THEN << << "writeFuse", 25708, 98 >>, << "writeFuse", 29820, 223 >>,
            << "writeFuse", 26222, 255 >> >>
    ELSE << >>

TableWriteTxs(sig) ==
    IF sig = 36871
    THEN << << 64, 76 >>, << 106, 44 >>, << 0, 100 >>, << 0, 108 >>,
            << 64, 76 >>, << 255, 44 >>, << 0, 116 >>, << 0, 124 >> >>
    ELSE IF sig \in KnownSignatures
    THEN << << 64, 76 >>, << 98, 44 >>, << 0, 100 >>, << 0, 108 >>,
            << 64, 76 >>, << 223, 44 >>, << 0, 116 >>, << 0, 124 >>,
            << 64, 76 >>, << 255, 44 >>, << 0, 102 >>, << 0, 110 >> >>
    ELSE << >>

\* C6: in write-defaults mode the writes are those of the device table:
\* LFUSE 0x6A then HFUSE 0xFF and no EFUSE write for 0x9007; LFUSE 0x62,
\* HFUSE 0xDF, EFUSE 0xFF in this order for the six other signatures.
C6_TableWrites ==
    (SignatureRead /\ ModeWriteDefaults /\ tSignature \in KnownSignatures) =>
        /\ IsPrefix(SelectSeq(calls, IsWriteCall), TableWrites(tSignature))
        /\ Finished =>
              /\ SelectSeq(calls, IsWriteCall) = TableWrites(tSignature)
              /\ txlog = InitialReadTxs \o TableWriteTxs(tSignature)
                           \o FuseReadTxs \o LockReadTxs

\* C6 witness: a write-defaults session on an ATtiny13 is over after two writes
C6_Witness ==
    /\ pc = "wait"
    /\ tReceivedChar = 119
    /\ tSignature = 36871
    /\ CountCalls("writeFuse") = 2
    /\ CountTx(<< 64, 76 >>) = 2

\* C7: in erase mode, whatever the signature, the session issues the erase
\* sequence (0x80,0x4C), (0x00,0x64), (0x00,0x6C) exactly once and no write
\* sequence, and reads the fuses and the lock bits again after the erase,
\* before it powers down.
C7_EraseMode ==
    (InSession /\ ModeErase) =>
        /\ ~WriteIssued
        /\ CountTx(<< 128, 76 >>) <= 1
        /\ CountCalls("eraseFlashAndLockBits") <= 1
        /\ Finished =>
              /\ txlog = InitialReadTxs \o EraseTxs \o FuseReadTxs \o LockReadTxs
              /\ calls = << << "readSignature" >>, << "readFuses" >>,
                            << "readLockBits" >>, << "eraseFlashAndLockBits" >>,
                            << "readFuses" >>, << "readLockBits" >> >>

\* C7 witness: an 'E' session on a device with an unknown signature is
\* about to power down, after the erase and the second read pass
C7_Witness ==
    /\ pc = "pd_sci"
    /\ tReceivedChar = 69
    /\ tSignature \notin KnownSignatures
    /\ CountTx(<< 128, 76 >>) = 1
    /\ Len(txlog) = 35

\* C8 as stated: with a signature that is not in the table, the session
\* issues neither a write sequence nor an erase sequence, in any mode.
C8_NoMutationWhenUnknown ==
    (SignatureRead /\ tSignature \notin KnownSignatures) =>
        /\ ~WriteIssued
        /\ ~EraseIssued

\* C8 amended: with a signature that is not in the table, the session
\* issues no write sequence in any mode; it issues the erase sequence, once,
\* exactly when the mode is erase; the fuse and lock-bit reads still run.
C8_NoWriteWhenUnknown ==
    (SignatureRead /\ tSignature \notin KnownSignatures) =>
        /\ ~WriteIssued
        /\ EraseIssued => ModeErase
        /\ pc \notin { "fuses1", "lock1", "erase_q", "erase" } =>
              /\ ModeErase <=> CountTx(<< 128, 76 >>) = 1
              /\ ~ModeErase <=> CountTx(<< 128, 76 >>) = 0
              /\ CountCalls("readFuses") >= 1
              /\ CountCalls("readLockBits") >= 1

\* C8 witness: an erase session on an unknown signature has erased
C8_Witness ==
    /\ Finished
    /\ tSignature \notin KnownSignatures
    /\ tReceivedChar = 101
    /\ txlog[21] = << 128, 76 >>
    /\ ~WriteIssued

\* C9: a write-defaults session that took the unrecognized-device branch
\* completes: it gets through the second read pass and the power-down and
\* is back waiting for the next trigger.
C9_UnknownSessionCompletes ==
    (pc = "release" /\ ModeWriteDefaults) ~> (pc = "wait")

\* C10: a read-only session, whatever the signature, issues no erase and no
\* write and no second read pass: readSignature, readFuses and readLockBits
\* run once each, 20 transactions, before power-down; in the two other
\* modes readFuses and readLockBits run twice each.
C10_ReadOnlyMode ==
    /\ (InSession /\ ModeReadOnly) =>
          /\ ~WriteIssued
          /\ ~EraseIssued
          /\ Len(txlog) <= 20
          /\ Finished =>
                /\ txlog = InitialReadTxs
                /\ Len(txlog) = 20
                /\ calls = << << "readSignature" >>, << "readFuses" >>,
                              << "readLockBits" >> >>
    /\ (Finished /\ ~ModeReadOnly) =>
          /\ CountCalls("readSignature") = 1
          /\ CountCalls("readFuses") = 2
          /\ CountCalls("readLockBits") = 2

\* C10 witness: an 'R' session on an ATtiny85 is over after 20 transactions
C10_Witness ==
    /\ pc = "wait"
    /\ tReceivedChar = 82
    /\ tSignature = 37643
    /\ Len(txlog) = 20

\* Where loop() is between sessions: in the wait of line 98, at the test of
\* line 100, or about to run line 101
IdlePcs == { "wait", "decide", "start" }

\* C11: every session that has been powered up, whatever the mode, the
\* signature, the SDO line and the button do, reaches the power-down and
\* is back waiting for the next trigger with VCC off and RST high.
C11_SessionReturnsToIdle ==
    (VCC = HIGH) ~> (pc = "wait" /\ VCC = LOW /\ RST = HIGH)

\* C12: whenever loop() is between sessions, after setup() and after any
\* number of sessions on any path, VCC is LOW and RST is HIGH.
C12_IdleIsSafe ==
    pc \in IdlePcs => (VCC = LOW /\ RST = HIGH)

\* C12 witness: back in the wait after a session that took the
\* unrecognized-device branch and verified
C12_Witness ==
    /\ pc = "wait"
    /\ InSession
    /\ tSignature \notin KnownSignatures
    /\ CountCalls("readFuses") = 2
    /\ VCC = LOW
    /\ RST = HIGH

\* The (high, low) address bytes of the three fuse banks
AddressBytes(address) ==
    CASE address = 25708 -> << 100, 108 >>
      [] address = 29820 -> << 116, 124 >>
      [] address = 26222 -> << 102, 110 >>

\* The four transactions of a write of value to the bank at address
WriteSequence(address, value) ==
    << << 64, 76 >>, << value, 44 >>, << 0, AddressBytes(address)[1] >>,
       << 0, AddressBytes(address)[2] >> >>

\* The write sequences of a sequence of writeFuse calls, one after the other
RECURSIVE WriteSequences(_)
WriteSequences(cs) ==
    IF cs = << >>
    THEN << >>
    ELSE WriteSequence(Head(cs)[2], Head(cs)[3]) \o WriteSequences(Tail(cs))

\* The writeFuse calls of the session so far
WriteCalls == SelectSeq(calls, IsWriteCall)

\* The transactions of the session from the first write sequence on
FromFirstWrite == SubSeq(txlog, 21, Len(txlog))

\* C13: every writeFuse(address, value) call issues (0x40,0x4C),
\* (value,0x2C), (0x00, high address byte), (0x00, low address byte) in this
\* order and nothing between or after them; the address bytes are
\* (0x64,0x6C) for LFUSE, (0x74,0x7C) for HFUSE, (0x66,0x6E) for EFUSE; and
\* a step of writeFuse changes nothing but the log, the position and the
\* three data lines whatever the target answers: no response is used.
C13_WriteFuseSequence ==
    /\ [](WriteIssued =>
            /\ Len(txlog) > 20
            /\ \A k \in DOMAIN WriteCalls :
                  WriteCalls[k][2] \in { LFUSE, HFUSE, EFUSE }
            /\ IsPrefix(Take(FromFirstWrite, 4 * Len(WriteCalls)),
                        WriteSequences(WriteCalls))
            /\ pc \in WriteSites =>
                  Len(FromFirstWrite) =
                      IF step = 0 THEN 4 * Len(WriteCalls)
                                  ELSE 4 * (Len(WriteCalls) - 1) + step
            /\ pc \notin WriteSites =>
                  Take(FromFirstWrite, 4 * Len(WriteCalls))
                      = WriteSequences(WriteCalls))
    /\ [][(pc \in WriteSites /\ txlog' # txlog) =>
            /\ resp' \in { << r >> : r \in UnusedResponses }
            /\ step' = (step + 1) % 4
            /\ pc' = IF step' = 0 THEN AfterWrite(pc) ELSE pc
            /\ printed' = IF step' = 0 THEN << "Writing complete." >>
                                       ELSE << >>
            /\ tSignature' = tSignature
            /\ tReceivedChar' = tReceivedChar
            /\ << VCC', RST', sdoMode', LED' >> = << VCC, RST, sdoMode, LED >>
          ]_vars

\* C13 witness: the three writes of an ATtiny85 are done, the last one with
\* the address bytes of EFUSE
C13_Witness ==
    /\ pc = "verify_q"
    /\ Len(WriteCalls) = 3
    /\ WriteCalls[3] = << "writeFuse", EFUSE, 255 >>
    /\ SubSeq(txlog, 29, 32) = WriteSequence(26222, 255)
    /\ resp # << >>

\* The last n transactions of the session
LastTxs(n) == SubSeq(txlog, Len(txlog) - n + 1, Len(txlog))

\* readFuses is running and has completed n transactions, or (n = 9) has
\* just returned
FusesDone(n) ==
    IF n = 9 THEN pc \in { "lock1", "lock2" } /\ step = 0
             ELSE pc \in { "fuses1", "fuses2" } /\ step = n

\* C14: a readFuses call issues (0x04,0x4C),(0x00,0x68),(0x00,0x6C), then
\* (0x04,0x4C),(0x00,0x7A),(0x00,0x7E), then (0x04,0x4C),(0x00,0x6A),
\* (0x00,0x6E), nine transactions and no other; the value it reports as
\* LFuse, HFuse, EFuse is the response of the 3rd, 6th, 9th of them, and the
\* other six transactions report nothing.
C14_ReadFusesSequence ==
    \A n \in 1..9 :
        FusesDone(n) =>
            /\ Len(txlog) >= n
            /\ LastTxs(n) = Take(FuseReadTxs, n)
            /\ CountCalls("readFuses") =
                  (IF pc \in { "fuses1", "lock1" } THEN 1 ELSE 2)
            /\ Len(resp) = 1
            /\ n = 3 => printed = << "LFuse", resp[1] >>
            /\ n = 6 => printed = << "HFuse", resp[1] >>
            /\ n = 9 => printed = << "EFuse", resp[1] >>
            /\ n \notin {3, 6, 9} => printed = << >>

\* C14 witness: the second group of the first fuse read has returned 0xDF,
\* reported as the high fuse
C14_Witness ==
    /\ FusesDone(6)
    /\ pc = "fuses1"
    /\ Len(txlog) = 14
    /\ txlog[14] = << 0, 126 >>
    /\ resp = << 223 >>
    /\ printed = << "HFuse", 223 >>

\* readLockBits has just made its third transaction and reported
LockReported == pc \in { "lock1", "lock2" } /\ step = 3

\* C15: the lock-bit report is made from the response v of the third
\* transaction of (0x04,0x4C),(0x00,0x78),(0x00,0x7C) and is inverted: LB1
\* is reported Programmed iff bit 0 of v is 0 and LB2 iff bit 1 of v is 0,
\* whatever the other six bits are; 0x03 reports both Not Programmed, 0x00
\* both Programmed, 0x01 and 0x02 one of each.
C15_LockBitsInverted ==
    LockReported =>
        /\ LastTxs(3) = LockReadTxs
        /\ Len(resp) = 1
        /\ Len(printed) = 4
        /\ printed[1] = "Lock"
        /\ printed[2] = resp[1]
        /\ LET v == resp[1]
               LB1 == printed[3]
               LB2 == printed[4]
           IN  /\ v \in 0..255
               /\ LB1 \in { "Programmed", "Not Programmed" }
               /\ LB2 \in { "Programmed", "Not Programmed" }
               /\ LB1 = "Programmed" <=> v % 2 = 0
               /\ LB2 = "Programmed" <=> (v \div 2) % 2 = 0
               /\ v = 3 => LB1 = "Not Programmed" /\ LB2 = "Not Programmed"
               /\ v = 0 => LB1 = "Programmed" /\ LB2 = "Programmed"
               /\ v = 1 => LB1 = "Not Programmed" /\ LB2 = "Programmed"
               /\ v = 2 => LB1 = "Programmed" /\ LB2 = "Not Programmed"
               /\ \A u \in 0..255 :
                     u % 4 = v % 4 =>
                        LockText(u, 0) = LB1 /\ LockText(u, 1) = LB2

\* C15 witness: the lock read of the verification pass returned 0xFE, and
\* only LB1 is reported programmed
C15_Witness ==
    /\ LockReported
    /\ pc = "lock2"
    /\ resp = << 254 >>
    /\ printed = << "Lock", 254, "Programmed", "Not Programmed" >>

\* The fuse address constant of the bank readFuses reports with its n-th
\* transaction
BankRead(n) ==
    CASE n = 3 -> LFUSE
      [] n = 6 -> HFUSE
      [] n = 9 -> EFUSE

\* The writeFuse calls of the session so far that wrote the bank at address
WritesTo(address) ==
    SelectSeq(WriteCalls, LAMBDA c : c[2] = address)

\* C16: against the simulated target (a completed write sequence stores its
\* data byte in the bank its address bytes select; the data transaction of
\* a read sequence shifts the selected bank out), every value that readFuses
\* reports for a bank after the session wrote that bank is the value of the
\* last write to it; writeFuse(LFUSE, 0x62) followed by readFuses reports
\* 0x62 as the low fuse.
C16_WriteReadRoundTrip ==
    /\ \A n \in {3, 6, 9} :
          (FusesDone(n) /\ WritesTo(BankRead(n)) # << >>) =>
              LET ws == WritesTo(BankRead(n))
              IN  /\ pc \in { "fuses2", "lock2" }
                  /\ printed[2] = ws[Len(ws)][3]
    /\ (FusesDone(3) /\ WriteCalls # << >>
          /\ WriteCalls[1] = << "writeFuse", LFUSE, 98 >>) =>
              printed = << "LFuse", 98 >>

\* C16 witness: after writeFuse(LFUSE, 0x62) on an ATtiny85 the low fuse is
\* read back as 0x62
C16_Witness ==
    /\ FusesDone(3)
    /\ pc = "fuses2"
    /\ tSignature = 37643
    /\ WriteCalls # << >>
    /\ WriteCalls[1] = << "writeFuse", LFUSE, 98 >>
    /\ simFuses["low"] = 98
    /\ printed = << "LFuse", 98 >>

\* The bit position of the k-th bit of a call, 10 down to 0
Position(k) == 11 - k

\* The level that carries bit b
Level(b) == IF b = 1 THEN HIGH ELSE LOW

\* C17: in every shiftOut(aValue, aAddress) call the two 11-bit frames are
\* the bytes shifted left by 2: at positions 10, 1 and 0 SDI and SII are
\* both driven LOW, and at position p in 9..2 SDI is driven to bit p - 2 of
\* aValue and SII to bit p - 2 of aAddress, position 10 first.
C17_FramesShiftedByTwo ==
    /\ Len(driven) <= 11
    /\ spc \in { "drive", "sample", "rise", "fall", "return" } =>
          /\ tSDIOut = 4 * aValue
          /\ tSIIOut = 4 * aAddress
    /\ \A k \in 1..Len(driven) :
          IF Position(k) \in 2..9
          THEN driven[k] = << Level(Bit(aValue, Position(k) - 2)),
                              Level(Bit(aAddress, Position(k) - 2)) >>
          ELSE driven[k] = << LOW, LOW >>
    /\ spc \in { "return", "returned" } => Len(driven) = 11
    /\ (spc = "drive" /\ driven = << >>) =>
          \A b \in 0..255 :
              /\ \A p \in {0, 1, 10} : PinBit(Frame(b), p) = LOW
              /\ \A p \in 2..9 : PinBit(Frame(b), p) = Level(Bit(b, p - 2))

\* C17 witness: shiftOut(0xAA, 0x55) has returned after driving
\* 0 10101010 00 on SDI and 0 01010101 00 on SII
C17_Witness ==
    /\ spc = "returned"
    /\ aValue = 170
    /\ aAddress = 85
    /\ driven = << << 0, 0 >>, << 1, 0 >>, << 0, 1 >>, << 1, 0 >>, << 0, 1 >>,
                   << 1, 0 >>, << 0, 1 >>, << 1, 0 >>, << 0, 1 >>, << 0, 0 >>,
                   << 0, 0 >> >>

\* The power lines and the direction of SDO
PowerPins == << VCC, RST, sdoMode, sdoOut >>

\* The session is powered: VCC on, 12 V on RESET, SDO an input
Powered == VCC = HIGH /\ RST = LOW /\ sdoMode = "INPUT"

\* C18: in every session VCC is switched on before RST is driven LOW, SDO
\* is made an input after that and before the first transaction, and the
\* first transaction is the first one of readSignature; whenever a protocol
\* operation runs, and at every transaction, VCC is HIGH, RST is LOW and
\* SDO is an input; a step of a protocol operation leaves VCC, RST and the
\* mode and output level of SDO as they are.
C18_PowerBracketsProtocol ==
    /\ [](/\ pc \in PollSites => Powered
          /\ pc = "rst_on" => (VCC = HIGH /\ RST = HIGH /\ txlog = << >>)
          /\ pc = "sdo_in" =>
                (VCC = HIGH /\ RST = LOW /\ sdoMode = "OUTPUT"
                    /\ txlog = << >>)
          /\ txlog # << >> =>
                (txlog[1] = << 8, 76 >> /\ calls[1] = << "readSignature" >>))
    /\ [][/\ (RST = HIGH /\ RST' = LOW) => (VCC = HIGH /\ VCC' = HIGH)
          /\ (sdoMode = "OUTPUT" /\ sdoMode' = "INPUT") =>
                (VCC = HIGH /\ RST = LOW /\ txlog' = << >>)
          /\ (txlog' # txlog /\ txlog' # << >>) => (Powered /\ Powered')
          /\ pc \in PollSites => PowerPins' = PowerPins
         ]_vars

\* C18 witness: inside the first writeFuse call of a session, after its
\* second transaction, the target is powered
C18_Witness ==
    /\ pc = "wr_l"
    /\ step = 2
    /\ Len(txlog) = 22
    /\ txlog[1] = << 8, 76 >>
    /\ Powered
    /\ SDI = LOW
    /\ SCI = LOW

\* The first transaction of a write sequence or of an erase sequence
Mutates(tx) == tx = << 64, 76 >> \/ tx = << 128, 76 >>

\* C19: in every session the initial read pass, the 8 transactions of
\* readSignature, the 9 of readFuses and the 3 of readLockBits, is complete
\* before the first transaction of an erase or a write sequence, and no
\* session issues both an erase sequence and a write sequence.
C19_ReadPassFirst ==
    /\ IsPrefix(Take(txlog, 20), InitialReadTxs)
    /\ \A k \in DOMAIN txlog : Mutates(txlog[k]) => k > 20
    /\ (EraseIssued \/ WriteIssued \/ pc \in WriteSites \cup {"erase"}) =>
          /\ Take(txlog, 20) = InitialReadTxs
          /\ Len(calls) >= 3
          /\ SubSeq(calls, 1, 3) = << << "readSignature" >>, << "readFuses" >>,
                                      << "readLockBits" >> >>
    /\ ~(EraseIssued /\ WriteIssued)
    /\ ~(HasTx(<< 64, 76 >>) /\ HasTx(<< 128, 76 >>))

\* C19 witness: an 'E' session on an ATtiny13 is over: the erase sequence
\* came 21st to 23rd, after the read pass, and nothing was written
C19_Witness ==
    /\ Finished
    /\ tReceivedChar = 69
    /\ tSignature = 36871
    /\ SubSeq(txlog, 1, 20) = InitialReadTxs
    /\ SubSeq(txlog, 21, 23) = EraseTxs
    /\ ~HasTx(<< 64, 76 >>)

====
